---- MODULE Spec2Model ----
(***************************************************************************)
(* The HTTP-to-MCP bridge of CJ_Revit-mcp-main, in its two variants:       *)
(*                                                                         *)
(*   - the spawn-per-call wrapper (src/unnamed/part_000): every            *)
(*     POST /api/execute spawns a fresh `node ./build/index.js`, writes    *)
(*     one tools/call line to its stdin, collects stdout/stderr and        *)
(*     settles a promise when the child closes;                            *)
(*   - the persistent-client wrapper (src/api-wrapper.js): one SDK client  *)
(*     is connected at start-up and every request is delegated to it.      *)
(*                                                                         *)
(* Spec / FairSpec are the spawn-per-call wrapper, ClientSpec the          *)
(* persistent-client wrapper.  Workers are the environment: what they      *)
(* write, whether they exit, hang or crash is chosen nondeterministically. *)
(***************************************************************************)
EXTENDS Integers, Sequences, FiniteSets

\* ------------------------------------------------------------------ bounds
\* HTTP requests issued to the spawn-per-call wrapper.
NumCalls == 2
\* Largest stdout chunk, in bytes, one 'data' event delivers.
MaxChunk == 2

Calls == 1..NumCalls

\* The in-flight bound the design asks for; the wrapper configures none.
InFlightBound == NumCalls - 1

\* ------------------------------------------------------------ request data
\* toolName as it arrives in req.body: "" stands for every falsy value
\* (missing, empty, null).
ToolNames == {"", "get_selected_elements"}

\* !toolName
Truthy(name) == name # ""

\* POST /api/execute, request i: req.body.  The arguments, when given, carry the
\* request's marker.
Bodies(i) ==
    { [route |-> "execute", toolName |-> t, hasArgs |-> h,
       arguments |-> IF h THEN {<<"limit", i>>} ELSE {}] :
        t \in ToolNames, h \in BOOLEAN }

\* GET /api/tools: no body.
ToolsRequest == [route |-> "tools", toolName |-> "", hasArgs |-> FALSE, arguments |-> {}]

\* GET /api/health: no body.
HealthRequest == [route |-> "health", toolName |-> "", hasArgs |-> FALSE, arguments |-> {}]

\* toolArgs || {}
ArgsOrEmpty(b) == IF b.hasArgs THEN b.arguments ELSE {}

\* JSON.stringify({jsonrpc, method: 'tools/call', params: {name, arguments}}) + '\n':
\* the frame written to the child's stdin.  It carries no id.
ToolCall(toolName, args) ==
    [jsonrpc |-> "2.0", method |-> "tools/call",
     params |-> [name |-> toolName, arguments |-> args]]

\* ------------------------------------------------------------------ worker
\* The marker a worker finds in the frame it read from its stdin (0: none).
MarkerOf(frame) ==
    IF frame.params.arguments = {} THEN 0
    ELSE (CHOOSE p \in frame.params.arguments : TRUE)[2]

\* The result payload a worker computes for a frame.
WorkerPayload(frame) == [elements |-> <<>>, marker |-> MarkerOf(frame)]

\* The bytes of the worker's reply line: an ASCII byte carrying the marker and
\* one two-byte UTF-8 character (lead byte, trail byte).
ReplyBytes(frame) ==
    << [k |-> "ascii", v |-> MarkerOf(frame)],
       [k |-> "lead",  v |-> 0],
       [k |-> "trail", v |-> 0] >>

\* ---------------------------------------------------------------- decoding
\* data.toString(): UTF-8 decoding of ONE chunk.  A lead byte followed by its
\* trail byte is one character; a lead byte without it, or a trail byte on its
\* own, decodes to U+FFFD.
RECURSIVE DataToString(_)
DataToString(chunk) ==
    IF chunk = <<>> THEN <<>>
    ELSE LET b == Head(chunk) IN
         IF b.k = "ascii" THEN <<[k |-> "ascii", v |-> b.v]>> \o DataToString(Tail(chunk))
         ELSE IF b.k = "lead" /\ Len(chunk) >= 2 /\ chunk[2].k = "trail"
              THEN <<[k |-> "char2", v |-> 0]>> \o DataToString(Tail(Tail(chunk)))
         ELSE <<[k |-> "fffd", v |-> 0]>> \o DataToString(Tail(chunk))

\* ================================================================ variables
VARIABLES
    bridge,     \* the bridge process: "up" | "crashed" (uncaught exception) | "exited"
    pc,         \* per call: "idle" | "awaiting" | "done" | "cut"
    body,       \* per call: req.body
    child,      \* per call: "none" | "failing" | "running" | "hung" | "exited"
    exitCode,   \* per call: "none" | "0" | "1" | "null" (killed by a signal)
    stdin,      \* per call: frames written to the child's stdin
    script,     \* per call: stdout bytes the worker has yet to write
    stdout,     \* per closure: `let stdout`
    stderr,     \* per closure: `let stderr`
    slot,       \* per call: the promise of callMCPTool
    attempts,   \* per call: number of resolve()/reject() invocations
    resp,       \* per call: the HTTP responses sent
    \* the persistent-client wrapper (src/api-wrapper.js)
    initPc,         \* start(): "start" | "connecting" | "listening"
    mcpClient,      \* `let mcpClient`: "undefined" | "client"
    mcpTransport,   \* `let mcpTransport`: "undefined" | "transport"
    serverProcess,  \* the child spawned by initializeMCP itself:
                    \*   "none" | "failing" | "running" | "exited"
    worker,         \* the child the transport launched: "none" | "running" | "exited"
    connected,      \* the client holds an open transport
    sdkPending,     \* the client's response handlers: {[id, call]}
    inbox,          \* frames the worker has read and not answered
    nextId          \* the client's next request id

varsS == <<bridge, pc, body, child, exitCode, stdin, script, stdout, stderr,
           slot, attempts, resp>>

varsC == <<initPc, mcpClient, mcpTransport, serverProcess, worker, connected,
           sdkPending, inbox, nextId>>

\* What only the spawn-per-call wrapper has.
varsChild == <<child, exitCode, stdin, script, stdout, stderr, slot, attempts>>

vars == <<varsS, varsC>>

NoBody == [route |-> "none", toolName |-> "", hasArgs |-> FALSE, arguments |-> {}]
Pending == [state |-> "pending", value |-> [none |-> TRUE]]

InitS ==
    /\ bridge = "up"
    /\ pc = [i \in Calls |-> "idle"]
    /\ body = [i \in Calls |-> NoBody]
    /\ child = [i \in Calls |-> "none"]
    /\ exitCode = [i \in Calls |-> "none"]
    /\ stdin = [i \in Calls |-> <<>>]
    /\ script = [i \in Calls |-> <<>>]
    /\ stdout = [i \in Calls |-> <<>>]
    /\ stderr = [i \in Calls |-> <<>>]
    /\ slot = [i \in Calls |-> Pending]
    /\ attempts = [i \in Calls |-> 0]
    /\ resp = [i \in Calls |-> <<>>]

InitC ==
    /\ initPc = "start"
    /\ mcpClient = "undefined"
    /\ mcpTransport = "undefined"
    /\ serverProcess = "none"
    /\ worker = "none"
    /\ connected = FALSE
    /\ sdkPending = {}
    /\ inbox = {}
    /\ nextId = 0

Init == InitS /\ InitC

\* ------------------------------------------------------------ the promise
\* resolve()/reject() on a promise: only the first settles it.
Settle(s, state, value) ==
    IF s.state = "pending" THEN [state |-> state, value |-> value] ELSE s

\* `stdout` and `stderr` declared at module level: one pair shared by all calls.
SharedClosure(i) == 1

\* The closure variables of one callMCPTool invocation: `let stdout`, `let stderr`
\* are declared inside the function, one pair per call.
ClosureOf(i) == i

\* An error message that is a fixed text.
Message(text) == [kind |-> text, stderr |-> <<>>, code |-> "-"]

\* new Error(`Process exited with code ${code}`): what the worker wrote to stderr
\* is left out.
CloseErrorNoStderr(err, code) ==
    [kind |-> "Process exited with code", stderr |-> <<>>, code |-> code]

\* new Error(stderr || `Process exited with code ${code}`)
CloseError(err, code) ==
    IF err # <<>> THEN [kind |-> "stderr", stderr |-> err, code |-> "-"]
    ELSE [kind |-> "Process exited with code", stderr |-> <<>>, code |-> code]

\* if (!code): a null code (the child was killed by a signal) taken for 0.
CloseIsSuccessFalsy(code) == code \in {"0", "null"}

\* if (code === 0)
CloseIsSuccess(code) == code = "0"

\* ------------------------------------------------------------ HTTP replies
Respond(r, i, status, b) == [r EXCEPT ![i] = Append(@, [status |-> status, body |-> b])]

\* POST /api/execute after `await callMCPTool(...)`: res.json({result}), or the
\* catch's res.status(500).json({error: error.message}).  The continuation is a
\* promise reaction: it runs when the handler that settled the promise returns,
\* before any other event is delivered.
Resume(r, i, s) ==
    IF s.state = "fulfilled"
    THEN Respond(r, i, 200, [result |-> s.value])
    ELSE Respond(r, i, 500, [error |-> s.value])

\* The diagnostic line a worker may write to its stderr, as one chunk.
ErrBytes == <<[k |-> "ascii", v |-> 0]>>

\* callMCPTool up to the point the promise is returned: spawn, the handlers,
\* the frame written to stdin, stdin ended.  `how` is what spawn does:
\*   "ok"     the child runs;
\*   "throw"  spawn throws synchronously: caught at the catch, reject(error);
\*   "error"  spawn returns a child that will emit 'error' (ENOENT, EACCES).
\* `r` is the value resp takes.
CallMCPTool(i, b, how, r) ==
    /\ how \in {"ok", "throw", "error"}
    /\ body' = [body EXCEPT ![i] = b]
    /\ pc' = [pc EXCEPT ![i] = IF how = "throw" THEN "done" ELSE "awaiting"]
    /\ stdout' = [stdout EXCEPT ![ClosureOf(i)] = IF how = "throw" THEN @ ELSE <<>>]
    /\ stderr' = [stderr EXCEPT ![ClosureOf(i)] = IF how = "throw" THEN @ ELSE <<>>]
    /\ child' = [child EXCEPT ![i] =
                    CASE how = "ok" -> "running"
                      [] how = "error" -> "failing"
                      [] OTHER -> "none"]
    /\ stdin' = [stdin EXCEPT ![i] =
                    IF how = "ok"
                    THEN <<ToolCall(b.toolName, ArgsOrEmpty(b))>>
                    ELSE @]
    /\ script' = [script EXCEPT ![i] =
                    IF how = "ok"
                    THEN ReplyBytes(ToolCall(b.toolName, ArgsOrEmpty(b)))
                    ELSE @]
    /\ slot' = [slot EXCEPT ![i] =
                    IF how = "throw"
                    THEN Settle(@, "rejected", Message("spawn failed"))
                    ELSE @]
    /\ attempts' = [attempts EXCEPT ![i] = IF how = "throw" THEN @ + 1 ELSE @]
    /\ resp' = IF how = "throw" THEN Resume(r, i, slot'[i]) ELSE r
    /\ UNCHANGED varsC
    /\ UNCHANGED <<bridge, exitCode>>

\* The same without the `return`: the handler answers 400 and goes on to call the tool.
RejectInvalidNoReturn(i, b) ==
    \E how \in {"ok", "throw", "error"} :
        CallMCPTool(i, b, how, Respond(resp, i, 400, [error |-> Message("toolName is required")]))

\* if (!toolName) return res.status(400).json({error: 'toolName is required'})
RejectInvalid(i, b) ==
    /\ resp' = Respond(resp, i, 400, [error |-> Message("toolName is required")])
    /\ body' = [body EXCEPT ![i] = b]
    /\ pc' = [pc EXCEPT ![i] = "done"]
    /\ UNCHANGED varsC
    /\ UNCHANGED <<bridge, child, exitCode, stdin, script, stdout, stderr, slot, attempts>>

\* POST /api/execute, up to its first await.  Calls are numbered in the order
\* their requests arrive.
Execute(i) ==
    /\ bridge = "up"
    /\ pc[i] = "idle"
    /\ \A j \in Calls : j < i => pc[j] # "idle"
    /\ \E b \in Bodies(i) :
          IF ~Truthy(b.toolName)
          THEN RejectInvalid(i, b)
          ELSE \E how \in {"ok", "throw", "error"} : CallMCPTool(i, b, how, resp)

\* child.stdout.on('data'): stdout += data.toString()
ChildStdout(i) ==
    /\ bridge = "up"
    /\ child[i] = "running"
    /\ script[i] # <<>>
    /\ \E n \in 1..MaxChunk :
          /\ n <= Len(script[i])
          /\ stdout' = [stdout EXCEPT ![ClosureOf(i)] = @ \o DataToString(SubSeq(script[i], 1, n))]
          /\ script' = [script EXCEPT ![i] = SubSeq(@, n + 1, Len(@))]
    /\ UNCHANGED varsC
    /\ UNCHANGED <<bridge, pc, body, child, exitCode, stdin, stderr, slot, attempts, resp>>

\* child.stderr.on('data'): stderr += data.toString()
ChildStderr(i) ==
    /\ bridge = "up"
    /\ child[i] = "running"
    /\ stderr[ClosureOf(i)] = <<>>
    /\ stderr' = [stderr EXCEPT ![ClosureOf(i)] = @ \o DataToString(ErrBytes)]
    /\ UNCHANGED varsC
    /\ UNCHANGED <<bridge, pc, body, child, exitCode, stdin, script, stdout, slot, attempts, resp>>

\* child.on('close', code): the worker has exited (code 0, code 1, or null when
\* a signal killed it) and its streams are closed; what it had not written is
\* never written.
ChildClose(i) ==
    /\ bridge = "up"
    /\ child[i] = "running"
    /\ \E code \in {"0", "1", "null"} :
          /\ exitCode' = [exitCode EXCEPT ![i] = code]
          /\ slot' = [slot EXCEPT ![i] =
                IF CloseIsSuccess(code)
                THEN Settle(@, "fulfilled", [success |-> TRUE, output |-> stdout[ClosureOf(i)]])
                ELSE Settle(@, "rejected", CloseError(stderr[ClosureOf(i)], code))]
    /\ child' = [child EXCEPT ![i] = "exited"]
    /\ script' = [script EXCEPT ![i] = <<>>]
    /\ attempts' = [attempts EXCEPT ![i] = @ + 1]
    /\ resp' = Resume(resp, i, slot'[i])
    /\ pc' = [pc EXCEPT ![i] = "done"]
    /\ UNCHANGED varsC
    /\ UNCHANGED <<bridge, body, stdin, stdout, stderr>>

\* The worker stops making progress: from here on it neither writes nor exits.
WorkerHang(i) ==
    /\ bridge = "up"
    /\ child[i] = "running"
    /\ child' = [child EXCEPT ![i] = "hung"]
    /\ UNCHANGED varsC
    /\ UNCHANGED <<bridge, pc, body, exitCode, stdin, script, stdout, stderr, slot, attempts, resp>>

\* The child emits 'error' (the launch failed).  callMCPTool registers no
\* 'error' listener, so the event is thrown as an uncaught exception and the
\* bridge process ends.
ChildSpawnError(i) ==
    /\ bridge = "up"
    /\ child[i] = "failing"
    /\ bridge' = "crashed"
    /\ child' = [child EXCEPT ![i] = "none"]
    /\ UNCHANGED varsC
    /\ UNCHANGED <<pc, body, exitCode, stdin, script, stdout, stderr, slot, attempts, resp>>

NextS ==
    \E i \in Calls :
        \/ Execute(i)
        \/ ChildStdout(i)
        \/ ChildStderr(i)
        \/ ChildClose(i)
        \/ WorkerHang(i)
        \/ ChildSpawnError(i)

Spec == Init /\ [][NextS]_vars

\* The event loop delivers every event that is ready, every request that can
\* arrive does, and every worker that can still act does.
FairSpec == Spec /\ WF_vars(NextS)

\* ====================================================== persistent client
\* The SDK client (@modelcontextprotocol/sdk) is a dependency: its requests are
\* modelled by their contract.  A request on a client without an open transport
\* is rejected at once; otherwise it is written to the worker with a fresh id
\* and a response handler is registered under that id.

\* The frame of an SDK request.
SdkFrame(id, method, name, args) ==
    [id |-> id, method |-> method, params |-> [name |-> name, arguments |-> args]]

\* The catch of a handler answering 200: `.status(500)` left out.
CatchRespondOk(r, i, msg) == Respond(r, i, 200, [error |-> msg])

\* catch (error) { res.status(500).json({ error: error.message }) }
CatchRespond(r, i, msg) == Respond(r, i, 500, [error |-> msg])

\* if (!mcpClient) return res.status(500).json({ error: 'MCP client not initialized' })
NotInitialized(i, b) ==
    /\ resp' = Respond(resp, i, 500, [error |-> Message("MCP client not initialized")])
    /\ body' = [body EXCEPT ![i] = b]
    /\ pc' = [pc EXCEPT ![i] = "done"]
    /\ UNCHANGED <<sdkPending, inbox, nextId>>

\* await mcpClient.<request>: rejected at once when the client is not connected
\* (the catch answers 500), else sent and awaited.
SdkRequest(i, b, method, name, args) ==
    /\ body' = [body EXCEPT ![i] = b]
    /\ IF ~connected
       THEN /\ resp' = CatchRespond(resp, i, Message("Not connected"))
            /\ pc' = [pc EXCEPT ![i] = "done"]
            /\ UNCHANGED <<sdkPending, inbox, nextId>>
       ELSE /\ sdkPending' = sdkPending \cup {[id |-> nextId, call |-> i]}
            /\ inbox' = inbox \cup {SdkFrame(nextId, method, name, args)}
            /\ nextId' = nextId + 1
            /\ pc' = [pc EXCEPT ![i] = "awaiting"]
            /\ UNCHANGED resp

\* initializeMCP up to `await mcpClient.connect(mcpTransport)`.  `how` is what
\* the spawn of line 20 does, as in callMCPTool; a synchronous throw is caught,
\* initializeMCP returns false and start() goes on to app.listen.
InitializeMCP ==
    /\ bridge = "up"
    /\ initPc = "start"
    /\ \E how \in {"ok", "throw", "error"} :
          IF how = "throw"
          THEN /\ initPc' = "listening"
               /\ UNCHANGED <<mcpClient, mcpTransport, serverProcess>>
          ELSE /\ serverProcess' = IF how = "ok" THEN "running" ELSE "failing"
               /\ mcpTransport' = "transport"
               /\ mcpClient' = "client"
               /\ initPc' = "connecting"
    /\ UNCHANGED <<worker, connected, sdkPending, inbox, nextId>>
    /\ UNCHANGED <<bridge, pc, body, resp>>
    /\ UNCHANGED varsChild

\* serverProcess emits 'error' on the next tick; it has no 'error' listener,
\* so the event is thrown as an uncaught exception and the bridge process ends.
ServerProcessError ==
    /\ bridge = "up"
    /\ serverProcess = "failing"
    /\ bridge' = "crashed"
    /\ serverProcess' = "none"
    /\ UNCHANGED <<initPc, mcpClient, mcpTransport, worker, connected, sdkPending, inbox, nextId>>
    /\ UNCHANGED <<pc, body, resp>>
    /\ UNCHANGED varsChild

\* mcpClient.connect settles: the transport has launched its own worker and the
\* initialize round trip (id 0) is done, or the launch or the handshake failed
\* and the client is left closed.  Then start() calls app.listen.
ConnectDone ==
    /\ bridge = "up"
    /\ initPc = "connecting"
    /\ serverProcess # "failing"
    /\ \E ok \in BOOLEAN :
          /\ connected' = ok
          /\ worker' = IF ok THEN "running" ELSE "none"
          /\ nextId' = IF ok THEN nextId + 1 ELSE nextId
    /\ initPc' = "listening"
    /\ UNCHANGED <<mcpClient, mcpTransport, serverProcess, sdkPending, inbox>>
    /\ UNCHANGED <<bridge, pc, body, resp>>
    /\ UNCHANGED varsChild

\* app.listen called when the module loads, before initializeMCP has finished.
AcceptingAtLoad == TRUE

\* start(): app.listen is called after `await initializeMCP()`, whatever it
\* returned; requests are served from then on.
Accepting == initPc = "listening"

\* GET /api/tools
ClientTools(i) ==
    /\ bridge = "up"
    /\ Accepting
    /\ pc[i] = "idle"
    /\ \A j \in Calls : j < i => pc[j] # "idle"
    /\ IF mcpClient = "undefined"
       THEN NotInitialized(i, ToolsRequest)
       ELSE SdkRequest(i, ToolsRequest, "tools/list", "", {})
    /\ UNCHANGED <<initPc, mcpClient, mcpTransport, serverProcess, worker, connected>>
    /\ UNCHANGED bridge
    /\ UNCHANGED varsChild

\* POST /api/execute
ClientExecute(i) ==
    /\ bridge = "up"
    /\ Accepting
    /\ pc[i] = "idle"
    /\ \A j \in Calls : j < i => pc[j] # "idle"
    /\ \E b \in Bodies(i) :
          IF mcpClient = "undefined"
          THEN NotInitialized(i, b)
          ELSE IF ~Truthy(b.toolName)
          THEN /\ resp' = Respond(resp, i, 400, [error |-> Message("toolName is required")])
               /\ body' = [body EXCEPT ![i] = b]
               /\ pc' = [pc EXCEPT ![i] = "done"]
               /\ UNCHANGED <<sdkPending, inbox, nextId>>
          ELSE SdkRequest(i, b, "tools/call", b.toolName, ArgsOrEmpty(b))
    /\ UNCHANGED <<initPc, mcpClient, mcpTransport, serverProcess, worker, connected>>
    /\ UNCHANGED bridge
    /\ UNCHANGED varsChild

\* mcpClient ? 'connected' : 'disconnected'
HealthMcp == IF mcpClient # "undefined" THEN "connected" ELSE "disconnected"

\* A health check that pings the worker: a frame is written when the client is
\* connected.
ClientHealthPing(i) ==
    /\ bridge = "up"
    /\ Accepting
    /\ pc[i] = "idle"
    /\ \A j \in Calls : j < i => pc[j] # "idle"
    /\ body' = [body EXCEPT ![i] = HealthRequest]
    /\ resp' = Respond(resp, i, 200, [status |-> "ok", mcp |-> HealthMcp])
    /\ pc' = [pc EXCEPT ![i] = "done"]
    /\ inbox' = IF connected THEN inbox \cup {SdkFrame(nextId, "ping", "", {})} ELSE inbox
    /\ nextId' = IF connected THEN nextId + 1 ELSE nextId
    /\ UNCHANGED <<initPc, mcpClient, mcpTransport, serverProcess, worker, connected, sdkPending>>
    /\ UNCHANGED bridge
    /\ UNCHANGED varsChild

\* GET /api/health: res.json({ status: 'ok', mcp: ... })
ClientHealth(i) ==
    /\ bridge = "up"
    /\ Accepting
    /\ pc[i] = "idle"
    /\ \A j \in Calls : j < i => pc[j] # "idle"
    /\ body' = [body EXCEPT ![i] = HealthRequest]
    /\ resp' = Respond(resp, i, 200, [status |-> "ok", mcp |-> HealthMcp])
    /\ pc' = [pc EXCEPT ![i] = "done"]
    /\ UNCHANGED varsC
    /\ UNCHANGED bridge
    /\ UNCHANGED varsChild

\* The catalog a worker reports.
WorkerTools == <<"get_selected_elements">>

\* res.json({ tools: tools.tools || [] }) / res.json({ result })
SuccessBody(b, f) ==
    IF b.route = "tools" THEN [tools |-> WorkerTools] ELSE [result |-> WorkerPayload(f)]

\* The worker answers one of the frames it has read, in any order, with a
\* result or with an error; the client hands the answer to the handler
\* registered under the frame's id, and drops it when there is none.
WorkerReply(f) ==
    /\ bridge = "up"
    /\ worker = "running"
    /\ f \in inbox
    /\ inbox' = inbox \ {f}
    /\ sdkPending' = {p \in sdkPending : p.id # f.id}
    /\ \E ok \in BOOLEAN :
          resp' = [i \in Calls |->
                     IF [id |-> f.id, call |-> i] \in sdkPending
                     THEN IF ok THEN Respond(resp, i, 200, SuccessBody(body[i], f))[i]
                          ELSE CatchRespond(resp, i, Message("tool error"))[i]
                     ELSE resp[i]]
    /\ pc' = [i \in Calls |->
                IF [id |-> f.id, call |-> i] \in sdkPending THEN "done" ELSE pc[i]]
    /\ UNCHANGED <<initPc, mcpClient, mcpTransport, serverProcess, worker, connected, nextId>>
    /\ UNCHANGED <<bridge, body>>
    /\ UNCHANGED varsChild

\* The client's request timeout: the handler is removed and the await rejects.
SdkTimeout(p) ==
    /\ bridge = "up"
    /\ p \in sdkPending
    /\ sdkPending' = sdkPending \ {p}
    /\ resp' = CatchRespond(resp, p.call, Message("Request timed out"))
    /\ pc' = [pc EXCEPT ![p.call] = "done"]
    /\ UNCHANGED <<initPc, mcpClient, mcpTransport, serverProcess, worker, connected, inbox, nextId>>
    /\ UNCHANGED <<bridge, body>>
    /\ UNCHANGED varsChild

\* The worker exits; the transport's close listener closes the client, which
\* rejects every registered handler (connection closed).
WorkerExit ==
    /\ bridge = "up"
    /\ worker = "running"
    /\ worker' = "exited"
    /\ connected' = FALSE
    /\ sdkPending' = {}
    /\ inbox' = {}
    /\ resp' = [i \in Calls |->
                  IF \E p \in sdkPending : p.call = i
                  THEN CatchRespond(resp, i, Message("Connection closed"))[i]
                  ELSE resp[i]]
    /\ pc' = [i \in Calls |-> IF \E p \in sdkPending : p.call = i THEN "done" ELSE pc[i]]
    /\ UNCHANGED <<initPc, mcpClient, mcpTransport, serverProcess, nextId>>
    /\ UNCHANGED <<bridge, body>>
    /\ UNCHANGED varsChild

\* The child spawned by initializeMCP itself ends on its own.
ServerProcessExit ==
    /\ bridge = "up"
    /\ serverProcess = "running"
    /\ serverProcess' = "exited"
    /\ UNCHANGED <<initPc, mcpClient, mcpTransport, worker, connected, sdkPending, inbox, nextId>>
    /\ UNCHANGED <<bridge, pc, body, resp>>
    /\ UNCHANGED varsChild

\* process.on('SIGINT'): `if (mcpClient && mcpTransport) await mcpClient.close()`,
\* then process.exit(0).  Closing the client closes the transport, which ends
\* the worker the transport launched, and rejects every registered handler;
\* whether the 500s of those requests still leave before the process exits is
\* not determined (pc "cut": the connection ended with the process).  Nothing
\* refers to serverProcess.  The handler is registered while start() is
\* awaiting initializeMCP.
Sigint ==
    /\ bridge = "up"
    /\ initPc # "start"
    /\ bridge' = "exited"
    /\ IF mcpClient # "undefined" /\ mcpTransport # "undefined"
       THEN /\ worker' = IF worker = "running" THEN "exited" ELSE worker
            /\ connected' = FALSE
            /\ sdkPending' = {}
            /\ inbox' = {}
            /\ \E answered \in BOOLEAN :
                  /\ resp' = [i \in Calls |->
                       IF answered /\ \E p \in sdkPending : p.call = i
                       THEN CatchRespond(resp, i, Message("Connection closed"))[i]
                       ELSE resp[i]]
                  /\ pc' = [i \in Calls |->
                       IF \E p \in sdkPending : p.call = i
                       THEN IF answered THEN "done" ELSE "cut"
                       ELSE pc[i]]
       ELSE UNCHANGED <<worker, connected, sdkPending, inbox, resp, pc>>
    /\ UNCHANGED <<initPc, mcpClient, mcpTransport, serverProcess, nextId, body>>
    /\ UNCHANGED varsChild

NextC ==
    \/ InitializeMCP
    \/ ServerProcessError
    \/ ConnectDone
    \/ \E i \in Calls : ClientTools(i)
    \/ \E i \in Calls : ClientExecute(i)
    \/ \E i \in Calls : ClientHealth(i)
    \/ \E f \in inbox : WorkerReply(f)
    \/ \E p \in sdkPending : SdkTimeout(p)
    \/ WorkerExit
    \/ ServerProcessExit
    \/ Sigint

ClientSpec == Init /\ [][NextC]_vars

\* ================================================================== claims
Live == {i \in Calls : child[i] \in {"running", "hung"}}
InFlight == {i \in Calls : pc[i] = "awaiting"}
Succeeded(i) == pc[i] = "done" /\ Len(resp[i]) >= 1 /\ resp[i][1].status = 200
Failed(i) == pc[i] = "done" /\ Len(resp[i]) >= 1 /\ resp[i][1].status = 500

\* C1: the result a caller receives is built only from what the worker of its
\* own request wrote: every marker in the output of call i is the marker of the
\* frame written for call i, and the output is no longer than that one reply.
C1_OwnReplyOnly ==
    \A i \in Calls : \A k \in 1..Len(resp[i]) :
        resp[i][k].status = 200 =>
            LET out == resp[i][k].body.result.output IN
            /\ Len(out) <= Len(ReplyBytes(stdin[i][1]))
            /\ \A n \in 1..Len(out) :
                  out[n].k = "ascii" => out[n].v = MarkerOf(stdin[i][1])

\* C1 witness: the reply to the later request (2) has been returned, with its own
\* marker, while the earlier request (1) is still in flight with part of its
\* reply received.
C1_Witness ==
    /\ pc[1] = "awaiting" /\ stdout[ClosureOf(1)] # <<>> /\ script[1] # <<>>
    /\ body[1].hasArgs /\ body[2].hasArgs
    /\ Succeeded(2)
    /\ resp[2][1].body.result.output = <<[k |-> "ascii", v |-> 2], [k |-> "char2", v |-> 0]>>

\* C2: a call whose worker never replies and never exits is nevertheless ended.
C2_HungCallEnds ==
    \A i \in Calls : (pc[i] = "awaiting" /\ child[i] = "hung") ~> (pc[i] = "done")

\* C3: the close event of a worker that exited with a non-zero code or was killed
\* by a signal rejects the pending call in that very step, and the caller is
\* answered with the failure (500), never with a success.
C3_CrashFailsPending ==
    [][\A i \in Calls :
          (child[i] \in {"running", "hung"} /\ child'[i] = "exited" /\ exitCode'[i] # "0")
              => /\ slot'[i].state = "rejected"
                 /\ pc'[i] = "done"
                 /\ Len(resp'[i]) = Len(resp[i]) + 1
                 /\ resp'[i][Len(resp'[i])].status = 500]_vars

\* C3 witness: a worker killed by a signal, its call failed, while the other
\* call is still pending on its own, live worker.
C3_Witness ==
    /\ exitCode[1] = "null" /\ Failed(1) /\ slot[1].state = "rejected"
    /\ pc[2] = "awaiting" /\ child[2] = "running"

\* C4: at most one worker process spawned by the bridge is alive.
C4_AtMostOneWorker == Cardinality(Live) <= 1

\* The frames of call i that are with the worker.
FramesOf(i) == {f \in inbox : [id |-> f.id, call |-> i] \in sdkPending}

\* C5: an execute request without a toolName is answered 400 in every state of
\* the bridge and nothing is sent for it; what is sent for a request with a
\* toolName is a tools/call carrying that name and the given arguments.
C5_InvalidRequest ==
    \A i \in Calls :
        (pc[i] # "idle" /\ body[i].route = "execute") =>
            IF ~Truthy(body[i].toolName)
            THEN /\ pc[i] = "done"
                 /\ resp[i] = <<[status |-> 400,
                                 body |-> [error |-> Message("toolName is required")]]>>
                 /\ \A p \in sdkPending : p.call # i
            ELSE \A f \in FramesOf(i) :
                    /\ f.method = "tools/call"
                    /\ f.params = [name |-> body[i].toolName, arguments |-> ArgsOrEmpty(body[i])]

\* C6: a successful invoke returns exactly the result payload of the worker's reply.
C6_PayloadVerbatim ==
    \A i \in Calls : Succeeded(i) => resp[i][1].body.result = WorkerPayload(stdin[i][1])

\* C7: a launch failure is delivered to the caller as an error and does not take
\* the bridge down: a dispatched call that has no child has been answered 500,
\* and the bridge is up.
C7_SpawnErrorContained ==
    /\ bridge = "up"
    /\ \A i \in Calls :
          (pc[i] # "idle" /\ Truthy(body[i].toolName) /\ child[i] = "none") => Failed(i)

\* The server is listening and the client is missing or has no open transport:
\* initialisation failed, or the worker has exited.
Unavailable == initPc = "listening" /\ (mcpClient = "undefined" \/ ~connected)

\* C8: a listTools, or an invoke with a toolName, handled while the worker is
\* unavailable is answered in that very step, with a 500, and nothing is
\* registered or written for it; and while the worker is unavailable no request
\* is waiting.
C8_UnavailableFailsFast ==
    /\ [][\A i \in Calls :
            (Unavailable /\ pc[i] = "idle" /\ pc'[i] # "idle"
               /\ (body'[i].route = "tools" \/ Truthy(body'[i].toolName)))
            => /\ pc'[i] = "done"
               /\ Len(resp'[i]) = 1
               /\ resp'[i][1].status = 500
               /\ sdkPending' = sdkPending
               /\ inbox' = inbox]_vars
    /\ [](Unavailable => (sdkPending = {} /\ \A i \in Calls : pc[i] # "awaiting"))

\* C8 witness: the worker has exited after a successful start; a listTools and
\* an invoke with a toolName made after that have both been answered 500.
C8_Witness ==
    /\ Unavailable /\ worker = "exited" /\ mcpClient = "client"
    /\ body[1].route = "tools" /\ Failed(1)
    /\ resp[1][1].body.error = Message("Not connected")
    /\ body[2].route = "execute" /\ Truthy(body[2].toolName) /\ Failed(2)
    /\ resp[2][1].body.error = Message("Not connected")

\* C9: the number of calls in flight never exceeds the bound.
C9_InFlightBounded == Cardinality(InFlight) <= InFlightBound

C11_FramesCarryId ==
    /\ \A i \in Calls : \A k \in 1..Len(stdin[i]) : "id" \in DOMAIN stdin[i][k]
    /\ \A i, j \in Calls : \A k \in 1..Len(stdin[i]) : \A l \in 1..Len(stdin[j]) :
          (i # j \/ k # l) => stdin[i][k].id # stdin[j][l].id

\* C14: once a worker has written its whole reply, the text collected from its
\* stdout is the decoding of the reply as one contiguous chunk, however the
\* reply was split into chunks.
C14_ChunkingIndependent ==
    \A i \in Calls :
        (child[i] = "running" /\ script[i] = <<>>)
            => stdout[ClosureOf(i)] = DataToString(ReplyBytes(stdin[i][1]))

\* C17: an invoke of the spawn-per-call wrapper is answered 200 exactly when its
\* worker closed with code 0, and then with {success: true, output: <the stdout
\* collected>}; after any other close (code 1, or null) it is answered 500 with
\* the collected stderr when there is some and 'Process exited with code
\* <code>' otherwise.
C17_CloseOutcome ==
    \A i \in Calls :
        /\ (exitCode[i] = "0") <=> (Len(resp[i]) >= 1 /\ resp[i][1].status = 200)
        /\ exitCode[i] = "0" =>
              resp[i] = <<[status |-> 200,
                          body |-> [result |-> [success |-> TRUE,
                                                output |-> stdout[ClosureOf(i)]]]]>>
        /\ exitCode[i] \in {"1", "null"} =>
              resp[i] = <<[status |-> 500,
                          body |-> [error |->
                             IF stderr[ClosureOf(i)] # <<>>
                             THEN [kind |-> "stderr", stderr |-> stderr[ClosureOf(i)], code |-> "-"]
                             ELSE [kind |-> "Process exited with code", stderr |-> <<>>,
                                   code |-> exitCode[i]]]]>>

\* C17 witness: one worker killed by a signal after writing to stderr, its call
\* failed with that text; the other closed with code 1 and an empty stderr, its
\* call failed with the exit code.
C17_Witness ==
    /\ exitCode[1] = "null" /\ stderr[ClosureOf(1)] # <<>> /\ Failed(1)
    /\ resp[1][1].body.error.kind = "stderr"
    /\ exitCode[2] = "1" /\ stderr[ClosureOf(2)] = <<>> /\ Failed(2)
    /\ resp[2][1].body.error = [kind |-> "Process exited with code", stderr |-> <<>>, code |-> "1"]

\* The step in which call i is handled as a health request.
HealthStep(i) == pc[i] = "idle" /\ pc'[i] = "done" /\ body'[i] = HealthRequest

\* C12: a health request is answered 'connected' exactly when the connection
\* to the worker has been established and is still open.
C12_HealthReportsWorker ==
    [][\A i \in Calls :
          HealthStep(i) => ((resp'[i][1].body.mcp = "connected") <=> connected)]_vars

\* C13: once the bridge has exited after SIGINT, no process it spawned is
\* still running.
C13_NoWorkerLeftRunning ==
    bridge = "exited" => (worker # "running" /\ serverProcess # "running")

\* The listTools calls whose tools/list request was written to the worker:
\* those still awaiting or cut off, and those answered other than by the two
\* rejections made before anything is written.
ToolsSent ==
    {i \in Calls :
        /\ body[i] = ToolsRequest
        /\ \/ pc[i] \in {"awaiting", "cut"}
           \/ /\ pc[i] = "done"
              /\ \/ resp[i][1].status = 200
                 \/ resp[i][1].body.error \notin
                       {Message("MCP client not initialized"), Message("Not connected")}}

\* C15: at most one tools/list round trip reaches the worker in its session
\* (the model's worker is launched once and never restarted).
C15_OneToolsRoundTrip == Cardinality(ToolsSent) <= 1

\* C16: a step that handles a health request changes nothing but the
\* request's own record and its answer: no process state, nothing written to
\* a worker, the client, the transport and every pending request unchanged.
C16_HealthChangesNothing ==
    [][\A i \in Calls :
          HealthStep(i) =>
             /\ UNCHANGED <<bridge, varsChild, varsC>>
             /\ \A j \in Calls \ {i} :
                   pc'[j] = pc[j] /\ body'[j] = body[j] /\ resp'[j] = resp[j]]_vars

\* C16 witness: a health request answered while an earlier call is still
\* awaiting its response from a connected worker.
C16_Witness ==
    /\ pc[1] = "awaiting" /\ sdkPending # {} /\ inbox # {} /\ connected
    /\ body[2] = HealthRequest /\ pc[2] = "done"
    /\ resp[2] = <<[status |-> 200, body |-> [status |-> "ok", mcp |-> "connected"]]>>

\* The step in which the initialisation attempt ends, successfully or not.
InitEnds == initPc \in {"start", "connecting"} /\ initPc' \notin {"start", "connecting"}

====
